---------------------------- MODULE Spec2Model ----------------------------
(***************************************************************************)
(* Model of src/database/fetch.py: the paginated ticker fetcher             *)
(* (fetch_uniswap_v3_pools), the batch metadata resolver                    *)
(* (fetch_defillama_metadata) and the content-hash cache store              *)
(* (get_dataframe_hash, smart_save_csv), over a file system of the four     *)
(* data files and their ".hash" sidecars.                                   *)
(*                                                                          *)
(* The program is single-threaded.  Each behaviour exercises one of the     *)
(* three components (mode), through a bounded number of calls; the files    *)
(* persist from one call to the next.                                       *)
(***************************************************************************)
EXTENDS Integers, Sequences, FiniteSets, TLC

VARIABLES
    mode,         \* which component this run exercises: "fetch", "resolve", "save"
    files,        \* the file system: path -> file content
    calls,        \* number of calls made so far in this run
    before,       \* the file system when the current fetch / resolve call started
    api,          \* the upstream ticker API: [nfull, last] (fixed for a run)
    fpc,          \* fetch: position ("idle", "request", "waiting", "returned", "raised")
    fargs,        \* fetch: [use_cache, force_refresh] of the current call
    page,         \* fetch: the loop's page counter
    all_pools,    \* fetch: rows collected so far
    nrequests,    \* fetch: requests sent by the current call (counted up to MaxCount)
    requested,    \* fetch: page parameter of the last request sent (0: none yet)
    prevRequested, \* fetch: page parameter of the request before it (0: none)
    lastResponse, \* fetch: the answer to the last answered request ("none": none yet)
    seen,         \* fetch: the kinds of answers the current call has received
    served,       \* fetch: the pages answered with a well-formed page, in order
    fret,         \* fetch: the table returned by the last call
    fwrote,       \* fetch: files written by the current call
    llama,        \* the upstream metadata API: which addresses it knows (fixed for a run)
    rpc,          \* resolve: position ("idle", "request", "waiting", "returned", "raised")
    rargs,        \* resolve: [token_addresses, use_cache, force_refresh]
    address_tokens, \* resolve: the filtered address list
    batch_i,      \* resolve: the for-loop's offset i
    metadata,     \* resolve: rows collected so far
    mrequests,    \* resolve: offsets of the batches requested, in order
    mresponses,   \* resolve: the answers to those requests, in order
    mkeys,        \* resolve: the key lists of those requests, in order
    rret,         \* resolve: the table returned by the last call
    rwrote,       \* resolve: files written by the current call
    prevCall,     \* save: the call before the last one (or NoCall)
    lastCall,     \* save: the last smart_save_csv call (or NoCall)
    mpc,          \* refine / main: position
    pools_df,     \* refine / main: the pool table
    llama_df,     \* refine / main: the metadata table
    refined_df,   \* refine / main: the result of integrate_metadata
    top_pools,    \* refine / main: the result of nlargest(100, 'volume_usd')
    cutoff,       \* refine / main: the reports of the find_optimal_cutoff calls, in order
    mcalls        \* main: the calls made, in order

vars == <<mode, files, calls, before, api, fpc, fargs, page, all_pools, nrequests,
          requested, prevRequested, lastResponse, seen, served, fret, fwrote, llama, rpc, rargs, address_tokens,
          batch_i, metadata, mrequests, mresponses, mkeys, rret, rwrote,
          prevCall, lastCall,
          mpc, pools_df, llama_df, refined_df, top_pools, cutoff, mcalls>>

fetchVars == <<api, fpc, fargs, page, all_pools, nrequests, requested,
               prevRequested, lastResponse, seen, served, fret, fwrote>>
resolveVars == <<llama, rpc, rargs, address_tokens, batch_i, metadata,
                 mrequests, mresponses, mkeys, rret, rwrote>>
saveVars == <<prevCall, lastCall>>
pipeVars == <<mpc, pools_df, llama_df, refined_df, top_pools, cutoff, mcalls>>

(***************************************************************************)
(* Bounds of the model.                                                     *)
(***************************************************************************)
MaxPages == 2      \* the upstream holds at most this many full pages
MaxCalls == 2      \* calls of fetch / resolve in one run
MaxSaves == 2      \* calls of smart_save_csv in one run
MaxBatches == 1    \* the longest address list fills MaxBatches batches and one more address
MaxReports == 1    \* calls of find_optimal_cutoff on one table

(***************************************************************************)
(* Program constants.                                                       *)
(***************************************************************************)
PerPage == 100
BatchSize == 50

COINGECKO_CACHE == "cache/coingecko_full_data_cache.csv"
DEFILLAMA_CACHE == "cache/defillama_metadata_cache.csv"
FULL_OUTPUT == "data/uniswap_v3_full_refined.csv"
TOP100_OUTPUT == "data/uniswap_v3_top100_pools.csv"

HashFile(filename) == filename \o ".hash"

DataFiles == {COINGECKO_CACHE, DEFILLAMA_CACHE, FULL_OUTPUT, TOP100_OUTPUT}
AllFiles == DataFiles \cup {HashFile(f) : f \in DataFiles}

(***************************************************************************)
(* Cell values.  Every cell is a record [k, v]; k tells what it is.         *)
(***************************************************************************)
None == [k |-> "none", v |-> 0]          \* Python None
NaN == [k |-> "nan", v |-> 0]            \* pandas' missing value
Blank == [k |-> "blank", v |-> 0]        \* the empty CSV field
Num(n) == [k |-> "num", v |-> n]
Tok(n) == [k |-> "tok", v |-> n]         \* a non-empty string, by its code
EmptyString == [k |-> "str", v |-> 0]    \* the string ""

(***************************************************************************)
(* Tables.  pd.DataFrame(list of dicts): the columns in the dicts' key      *)
(* order, one row per dict.  pd.DataFrame([]) has no column and no row.     *)
(***************************************************************************)
DataFrame(cols, rows) ==
    IF rows = <<>> THEN [columns |-> <<>>, rows |-> <<>>]
    ELSE [columns |-> cols, rows |-> rows]

IsEmpty(df) == Len(df.rows) = 0 \/ Len(df.columns) = 0

\* All column names of the model, in alphabetical order (sorted(df.columns)).
ColumnOrder ==
    <<"address", "base", "liquidity_score", "page", "symbol", "target",
      "trading_pair", "trust_grade", "volume_formatted", "volume_usd">>

InSeq(x, s) == \E i \in 1..Len(s) : s[i] = x

SortedColumns(cols) ==
    LET Keep(c) == InSeq(c, cols) IN SelectSeq(ColumnOrder, Keep)

Reindex(df, cols) == [columns |-> cols, rows |-> df.rows]

\* to_csv renders a missing value (None, NaN) as the empty field, which is
\* also how it renders the empty string.
Render(cell) ==
    IF cell.k \in {"none", "nan"} \/ cell = EmptyString THEN Blank ELSE cell

\* read_csv parses the empty field as NaN.
Parse(field) == IF field.k = "blank" THEN NaN ELSE field

ToCsv(df) ==
    [kind |-> "csv",
     header |-> df.columns,
     lines |-> [i \in 1..Len(df.rows) |->
                  [j \in 1..Len(df.columns) |-> Render(df.rows[i][df.columns[j]])]]]

ColumnIndex(header, c) == CHOOSE j \in 1..Len(header) : header[j] = c

ReadCsv(content) ==
    [columns |-> content.header,
     rows |-> [i \in 1..Len(content.lines) |->
                 [c \in {content.header[j] : j \in 1..Len(content.header)} |->
                    Parse(content.lines[i][ColumnIndex(content.header, c)])]]]

(***************************************************************************)
(* File contents.                                                           *)
(***************************************************************************)
NoFile == [kind |-> "nofile"]
Unreadable == [kind |-> "unreadable"]     \* reading it raises
Text(body, ws) == [kind |-> "text", body |-> body, ws |-> ws]
Garbage == [garbage |-> TRUE]             \* text that is no digest of any table

Exists(fs, path) == fs[path] # NoFile

\* hashlib.md5(...).hexdigest(), taken as collision-free.
Md5(content) == [md5 |-> content]

\* str.strip(): drops surrounding white space.
Strip(text) == [text EXCEPT !.ws = FALSE]

(***************************************************************************)
(* get_dataframe_hash                                                       *)
(***************************************************************************)
NoHash == [nohash |-> TRUE]

\* (the digest without line 219: the columns stay in the table's order)
GetDataframeHashUnsorted(df) ==
    IF IsEmpty(df) THEN NoHash ELSE Md5(ToCsv(df))

\* Lines 213-221.
GetDataframeHash(df) ==
    IF IsEmpty(df) THEN NoHash
    ELSE Md5(ToCsv(Reindex(df, SortedColumns(df.columns))))

(***************************************************************************)
(* smart_save_csv.  io is what the environment does to the two writes:      *)
(* "ok", "csv_fail" (df.to_csv raises) or "hash_fail" (writing the sidecar  *)
(* raises); a write that raises leaves its file as it was.                  *)
(***************************************************************************)
IoOutcomes == {"ok", "csv_fail", "hash_fail"}

\* (the check without line 233's test that the data file exists)
StoredHashMatchesSidecarOnly(fs, filename, current_hash) ==
    /\ Exists(fs, HashFile(filename))
    /\ fs[HashFile(filename)].kind = "text"
    /\ Strip(fs[HashFile(filename)]) = Text(current_hash, FALSE)

\* Lines 233-244: TRUE when the stored digest is read and equals current_hash.
StoredHashMatches(fs, filename, current_hash) ==
    /\ Exists(fs, filename)
    /\ Exists(fs, HashFile(filename))
    /\ fs[HashFile(filename)].kind = "text"
    /\ Strip(fs[HashFile(filename)]) = Text(current_hash, FALSE)

\* (the save without lines 251-252: the sidecar is never written)
WriteWithoutHash(fs, df, filename, current_hash, io) ==
    IF io = "csv_fail" THEN [files |-> fs, ret |-> FALSE, branch |-> "error", wrote |-> {}]
    ELSE [files |-> [fs EXCEPT ![filename] = ToCsv(df)],
          ret |-> io = "ok",
          branch |-> IF io = "ok" THEN "saved" ELSE "error",
          wrote |-> {filename}]

\* Lines 249-257: the two writes, in order.
WriteFiles(fs, df, filename, current_hash, io) ==
    IF io = "csv_fail" THEN
        [files |-> fs, ret |-> FALSE, branch |-> "error", wrote |-> {}]
    ELSE IF io = "hash_fail" THEN
        [files |-> [fs EXCEPT ![filename] = ToCsv(df)],
         ret |-> FALSE, branch |-> "error", wrote |-> {filename}]
    ELSE
        [files |-> [fs EXCEPT ![filename] = ToCsv(df),
                              ![HashFile(filename)] = Text(current_hash, FALSE)],
         ret |-> TRUE, branch |-> "saved",
         wrote |-> {filename, HashFile(filename)}]

\* (a save for which a sidecar that cannot be read, or holds no digest, is fatal)
SmartSaveCsvFatalSidecar(fs, df, filename, io) ==
    IF IsEmpty(df) THEN
        [files |-> fs, ret |-> FALSE, branch |-> "skipped", wrote |-> {}]
    ELSE IF StoredHashMatches(fs, filename, GetDataframeHash(df)) THEN
        [files |-> fs, ret |-> FALSE, branch |-> "unchanged", wrote |-> {}]
    ELSE IF /\ Exists(fs, filename)
            /\ fs[HashFile(filename)] \in {Unreadable, Text(Garbage, FALSE)}
    THEN [files |-> fs, ret |-> FALSE, branch |-> "error", wrote |-> {}]
    ELSE WriteFiles(fs, df, filename, GetDataframeHash(df), io)

\* Lines 223-257.
SmartSaveCsv(fs, df, filename, io) ==
    IF IsEmpty(df) THEN
        [files |-> fs, ret |-> FALSE, branch |-> "skipped", wrote |-> {}]
    ELSE IF StoredHashMatches(fs, filename, GetDataframeHash(df)) THEN
        [files |-> fs, ret |-> FALSE, branch |-> "unchanged", wrote |-> {}]
    ELSE WriteFiles(fs, df, filename, GetDataframeHash(df), io)


(***************************************************************************)
(* The upstream ticker API of a run: nfull full pages, then one page of     *)
(* `last` tickers, then empty pages.  Ticker i of page p is a fixed record; *)
(* its volume takes the shapes the API can send: a number, no               *)
(* converted_volume, a converted_volume without usd, a null usd.            *)
(***************************************************************************)
LastSizes == {0, 40}

Apis == [nfull : 0..MaxPages, last : LastSizes]

ApiPageSize(a, p) ==
    IF p <= a.nfull THEN PerPage
    ELSE IF p = a.nfull + 1 THEN a.last
    ELSE 0

UpstreamTicker(p, i) ==
    [base |-> Tok(p * 1000 + i),
     has_cv |-> i % 7 # 3,
     has_usd |-> i % 7 # 4,
     usd |-> IF i % 7 = 5 THEN None ELSE Num((PerPage - i) * 10 + p)]

\* Line 77: t.get("converted_volume", {}).get("usd", 0)
GetVolume(t) ==
    IF ~t.has_cv THEN Num(0)
    ELSE IF ~t.has_usd THEN Num(0)
    ELSE t.usd

PoolColumns == <<"page", "base", "volume_usd">>

\* Lines 72-83: the row built from ticker t while the loop is at `pg`.
TickerRow(pg, t) ==
    [page |-> Num(pg), base |-> t.base, volume_usd |-> GetVolume(t)]

\* Lines 71-83: the rows of the first n tickers of upstream page p.
PageRows(pg, p, n) == [i \in 1..n |-> TickerRow(pg, UpstreamTicker(p, i))]

\* (the test without lines 89-91: only an empty page ends the loop)
IsLastPageOnlyEmpty(n) == n = 0

\* Lines 86-91: the page that ends the loop.
IsLastPage(n) == n = 0 \/ n < PerPage

\* (the short-circuit without its test of force_refresh)
CacheHitIgnoringForce(use_cache, force_refresh, fs, path) ==
    use_cache /\ Exists(fs, path)

\* Lines 43, 139: the cache short-circuit.
CacheHit(use_cache, force_refresh, fs, path) ==
    use_cache /\ ~force_refresh /\ Exists(fs, path)

(***************************************************************************)
(* Lines 96-106 and 184-194: what the handlers do with an exception of the  *)
(* request.  A RequestException always has the attribute `response`; it is  *)
(* None when no response came (connection error, timeout), and then         *)
(* e.response.status_code raises AttributeError inside the handler, which   *)
(* leaves the function.                                                     *)
(***************************************************************************)
RequestExceptionOutcome(has_response, status) ==
    IF ~has_response THEN "raise"
    ELSE IF status = 429 THEN "retry"
    ELSE "stop"

\* (a retry that moves on to the next page)
PageAfterRetrySkipping(pg) == pg + 1

\* Line 100: `continue` in the while loop: the page to request next.
PageAfterRetry(pg) == pg

\* The request counter stops at MaxCount: a fresh fetch without failure sends
\* at most MaxPages + 1 requests, every count beyond that is "more".
MaxCount == MaxPages + 3

CountUp(n) == IF n < MaxCount THEN n + 1 ELSE n

EmptyFrame == [columns |-> <<>>, rows |-> <<>>]

(***************************************************************************)
(* fetch_uniswap_v3_pools                                                   *)
(***************************************************************************)
\* (a fetch that discards the rows collected before a failure)
FetchSaveDroppingRows(fs, pools, io) ==
    [files |-> fs, ret |-> FALSE, branch |-> "skipped", wrote |-> {},
     df |-> EmptyFrame]

\* Lines 108-115: the table built from the rows, saved when it has rows.
FetchSave(fs, pools, io) ==
    LET df == DataFrame(PoolColumns, pools)
        r == IF IsEmpty(df)
             THEN [files |-> fs, ret |-> FALSE, branch |-> "skipped", wrote |-> {}]
             ELSE SmartSaveCsv(fs, df, COINGECKO_CACHE, io)
    IN [files |-> r.files, ret |-> r.ret, branch |-> r.branch, wrote |-> r.wrote,
        df |-> df]

\* Lines 108-132: the loop has ended with `pools`; build, save, return.
FetchExit(pools, io) ==
    LET r == FetchSave(files, pools, io) IN
    /\ all_pools' = pools
    /\ files' = r.files
    /\ fwrote' = r.wrote
    /\ fret' = r.df
    /\ fpc' = "returned"
    /\ UNCHANGED page

\* The answer to the request in flight is recorded.
Answered(kind) ==
    /\ lastResponse' = kind
    /\ seen' = seen \cup {kind}

FetchIdle == fpc \in {"idle", "returned", "raised"}

\* Lines 43-47: the cached table is loaded and returned.
FetchFromCache(use_cache, force_refresh) ==
    /\ mode = "fetch" /\ FetchIdle /\ calls < MaxCalls
    /\ CacheHit(use_cache, force_refresh, files, COINGECKO_CACHE)
    /\ calls' = calls + 1
    /\ before' = files
    /\ fargs' = [use_cache |-> use_cache, force_refresh |-> force_refresh]
    /\ fret' = ReadCsv(files[COINGECKO_CACHE])
    /\ fpc' = "returned"
    /\ page' = 1 /\ all_pools' = <<>> /\ fwrote' = {}
    /\ nrequests' = 0 /\ requested' = 0 /\ prevRequested' = 0
    /\ lastResponse' = "none" /\ seen' = {} /\ served' = <<>>
    /\ UNCHANGED <<mode, files, api, resolveVars, saveVars, pipeVars>>

\* Lines 49-53: a fresh fetch starts.
FetchFresh(use_cache, force_refresh) ==
    /\ mode = "fetch" /\ FetchIdle /\ calls < MaxCalls
    /\ ~CacheHit(use_cache, force_refresh, files, COINGECKO_CACHE)
    /\ calls' = calls + 1
    /\ before' = files
    /\ fargs' = [use_cache |-> use_cache, force_refresh |-> force_refresh]
    /\ fret' = EmptyFrame
    /\ fpc' = "request"
    /\ page' = 1 /\ all_pools' = <<>> /\ fwrote' = {}
    /\ nrequests' = 0 /\ requested' = 0 /\ prevRequested' = 0
    /\ lastResponse' = "none" /\ seen' = {} /\ served' = <<>>
    /\ UNCHANGED <<mode, files, api, resolveVars, saveVars, pipeVars>>

\* Lines 56-60: the request for the current page is sent.
FetchRequest ==
    /\ fpc = "request"
    /\ fpc' = "waiting"
    /\ requested' = page
    /\ prevRequested' = requested
    /\ nrequests' = CountUp(nrequests)
    /\ UNCHANGED <<mode, files, calls, before, api, fargs, page, all_pools, lastResponse,
                   seen, served, fret, fwrote, resolveVars, saveVars, pipeVars>>

\* Lines 61-94: a well-formed answer.
FetchOk ==
    /\ fpc = "waiting"
    /\ Answered("ok")
    /\ served' = Append(served, requested)
    /\ LET n == ApiPageSize(api, requested)
           pools == all_pools \o PageRows(page, requested, n)
       IN IF IsLastPage(n)
          THEN \E io \in IoOutcomes : FetchExit(pools, io)
          ELSE /\ all_pools' = pools
               /\ page' = page + 1
               /\ fpc' = "request"
               /\ UNCHANGED <<files, fret, fwrote>>
    /\ UNCHANGED <<mode, calls, before, api, fargs, nrequests, requested, prevRequested,
                   resolveVars, saveVars, pipeVars>>

\* Lines 96-103: the request raised a RequestException.
FetchRequestException(kind, has_response, status) ==
    /\ fpc = "waiting"
    /\ Answered(kind)
    /\ LET outcome == RequestExceptionOutcome(has_response, status) IN
       IF outcome = "retry" THEN
            /\ page' = PageAfterRetry(page)
            /\ fpc' = "request"
            /\ UNCHANGED <<files, all_pools, fret, fwrote>>
       ELSE IF outcome = "stop" THEN
            \E io \in IoOutcomes : FetchExit(all_pools, io)
       ELSE /\ fpc' = "raised"
            /\ UNCHANGED <<files, page, all_pools, fret, fwrote>>
    /\ UNCHANGED <<mode, calls, before, api, fargs, nrequests, requested, prevRequested,
                   served, resolveVars, saveVars, pipeVars>>

\* HTTP 429: raise_for_status raises an HTTPError that carries the response.
Fetch429 == FetchRequestException("429", TRUE, 429)

\* Any other HTTP error status.
FetchHttpError == FetchRequestException("http_error", TRUE, 500)

\* ConnectionError or Timeout: no response object.
FetchConnError == FetchRequestException("conn_error", FALSE, 0)

\* Line 62, resp.json() on a malformed body.  Newer `requests` raise their own
\* JSONDecodeError, a RequestException without response; older ones raise a
\* ValueError, which line 104 catches.  Both builds are modelled.
FetchBadJson ==
    \/ FetchRequestException("bad_json", FALSE, 0)
    \/ /\ fpc = "waiting"
       /\ Answered("bad_json")
       /\ \E io \in IoOutcomes : FetchExit(all_pools, io)
       /\ UNCHANGED <<mode, calls, before, api, fargs, nrequests, requested, prevRequested,
                   served, resolveVars, saveVars, pipeVars>>

\* Lines 71-83 and 104-106: ticker k of the page is malformed (not an object,
\* or its converted_volume is null): the rows before it stay, the loop ends.
BadPositions == {41}

FetchBadTicker(k) ==
    /\ fpc = "waiting"
    /\ k <= ApiPageSize(api, requested)
    /\ Answered("bad_ticker")
    /\ \E io \in IoOutcomes :
          FetchExit(all_pools \o PageRows(page, requested, k - 1), io)
    /\ UNCHANGED <<mode, calls, before, api, fargs, nrequests, requested, prevRequested,
                   served, resolveVars, saveVars, pipeVars>>

NextFetch ==
    \/ FetchRequest
    \/ Fetch429
    \/ \E uc, fr \in BOOLEAN : FetchFresh(uc, fr)
    \/ \E uc, fr \in BOOLEAN : FetchFromCache(uc, fr)
    \/ FetchOk
    \/ FetchHttpError
    \/ FetchConnError
    \/ FetchBadJson
    \/ \E k \in BadPositions : FetchBadTicker(k)

(***************************************************************************)
(* Token identifiers.  A token is [pfx, id, up]: its first two characters   *)
(* when they are "0x" or "0X" ("" otherwise), the rest of it by a number,   *)
(* and whether the rest holds upper-case letters.                           *)
(***************************************************************************)
Address(j) ==
    [pfx |-> IF j % 2 = 0 THEN "0X" ELSE "0x", id |-> j, up |-> j % 3 = 0]

Symbol(j) == [pfx |-> "", id |-> j, up |-> TRUE]

\* str.lower()
Lower(t) ==
    [pfx |-> IF t.pfx = "0X" THEN "0x" ELSE t.pfx, id |-> t.id, up |-> FALSE]

\* (the filter that only knows the lower-case prefix)
StartsWithLower0x(t) == t.pfx = "0x"

\* Line 152: addr.startswith('0x') or addr.startswith('0X')
StartsWith0x(t) == t.pfx = "0x" \/ t.pfx = "0X"

\* The cell that holds a token.
AddrCell(t) ==
    [k |-> "addr",
     v |-> t.id * 4 + (IF t.pfx = "0X" THEN 2 ELSE 0) + (IF t.up THEN 1 ELSE 0)]

Addresses(n) == [j \in 1..n |-> Address(j)]

\* The address lists a run may be given: none, symbols only, and lists that
\* fill less than a batch, exactly a batch, and several batches; and lists
\* that hold one address in two letter cases, in one batch and in two.
AddressLists ==
    { <<>>,
      <<Symbol(901), Symbol(902)>>,
      <<Symbol(901)>> \o Addresses(1),
      Addresses(BatchSize),
      <<Symbol(901)>> \o Addresses(MaxBatches * BatchSize + 1),
      Addresses(3) \o <<Lower(Address(3))>>,
      Addresses(MaxBatches * BatchSize) \o <<Lower(Address(3))>> }

(***************************************************************************)
(* The upstream metadata API of a run: the addresses it knows.  It answers  *)
(* a batch with one entry per requested key it knows, in request order; the *)
(* answer is a mapping, so a key requested twice has one entry.             *)
(***************************************************************************)
Llamas == {"all", "odd", "none"}

Knows(l, t) == l = "all" \/ (l = "odd" /\ t.id % 2 = 1)

\* Line 164: the keys of a batch ("ethereum:" + lower-cased address).
BatchKeys(batch) == [j \in 1..Len(batch) |-> Lower(batch[j])]

Coins(l, keys) ==
    LET placed == [j \in 1..Len(keys) |-> <<j, keys[j]>>]
        Entry(p) == Knows(l, p[2]) /\ \A i \in 1..(p[1] - 1) : keys[i] # p[2]
        entries == SelectSeq(placed, Entry)
    IN [n \in 1..Len(entries) |-> entries[n][2]]

MetaColumns == <<"address", "symbol">>

\* Lines 174-180: the row of one returned key.
MetaRow(key) ==
    [address |-> AddrCell(Lower(key)),
     symbol |-> IF key.id % 5 = 0 THEN None ELSE Tok(key.id)]

MetaRows(coins, n) == [j \in 1..n |-> MetaRow(coins[j])]

Min(a, b) == IF a < b THEN a ELSE b

\* Line 163: address_tokens[i:i+batch_size]
Batch(tokens, i) == SubSeq(tokens, i + 1, Min(i + BatchSize, Len(tokens)))

\* Lines 162, 188, 191, 194: `continue` in the for loop goes on with the next
\* offset of range(0, len(address_tokens), batch_size).
OffsetAfterContinue(i) == i + BatchSize

(***************************************************************************)
(* fetch_defillama_metadata                                                 *)
(***************************************************************************)
ResolveSave(fs, meta, io) ==
    LET df == DataFrame(MetaColumns, meta)
        r == IF IsEmpty(df)
             THEN [files |-> fs, ret |-> FALSE, branch |-> "skipped", wrote |-> {}]
             ELSE SmartSaveCsv(fs, df, DEFILLAMA_CACHE, io)
    IN [files |-> r.files, ret |-> r.ret, branch |-> r.branch, wrote |-> r.wrote,
        df |-> df]

\* Lines 196-208: the loop has ended with `meta`; build, save, return.
ResolveExit(meta, io) ==
    LET r == ResolveSave(files, meta, io) IN
    /\ metadata' = meta
    /\ files' = r.files
    /\ rwrote' = r.wrote
    /\ rret' = r.df
    /\ rpc' = "returned"
    /\ UNCHANGED batch_i

\* The for loop goes on after the batch at batch_i, or ends.
ResolveAdvance(meta) ==
    IF OffsetAfterContinue(batch_i) < Len(address_tokens)
    THEN /\ batch_i' = OffsetAfterContinue(batch_i)
         /\ metadata' = meta
         /\ rpc' = "request"
         /\ UNCHANGED <<files, rret, rwrote>>
    ELSE \E io \in IoOutcomes : ResolveExit(meta, io)

ResolveIdle == rpc \in {"idle", "returned", "raised"}

\* Lines 139-143: the cached table is loaded and returned.
ResolveFromCache(use_cache, force_refresh) ==
    /\ mode = "resolve" /\ ResolveIdle /\ calls < MaxCalls
    /\ CacheHit(use_cache, force_refresh, files, DEFILLAMA_CACHE)
    /\ calls' = calls + 1
    /\ before' = files
    /\ rargs' = [rargs EXCEPT !.use_cache = use_cache,
                              !.force_refresh = force_refresh]
    /\ rret' = ReadCsv(files[DEFILLAMA_CACHE])
    /\ rpc' = "returned"
    /\ address_tokens' = <<>> /\ batch_i' = 0 /\ metadata' = <<>>
    /\ mrequests' = <<>> /\ mresponses' = <<>> /\ mkeys' = <<>> /\ rwrote' = {}
    /\ UNCHANGED <<mode, files, llama, fetchVars, saveVars, pipeVars>>

\* Lines 145-158: a fresh resolve starts; it returns at once when no
\* 0x-prefixed address is given.
ResolveFresh(use_cache, force_refresh) ==
    /\ mode = "resolve" /\ ResolveIdle /\ calls < MaxCalls
    /\ ~CacheHit(use_cache, force_refresh, files, DEFILLAMA_CACHE)
    /\ calls' = calls + 1
    /\ before' = files
    /\ rargs' = [rargs EXCEPT !.use_cache = use_cache,
                              !.force_refresh = force_refresh]
    /\ address_tokens' = SelectSeq(rargs.token_addresses, StartsWith0x)
    /\ rpc' = IF address_tokens' = <<>> THEN "returned" ELSE "request"
    /\ rret' = EmptyFrame
    /\ batch_i' = 0 /\ metadata' = <<>>
    /\ mrequests' = <<>> /\ mresponses' = <<>> /\ mkeys' = <<>> /\ rwrote' = {}
    /\ UNCHANGED <<mode, files, llama, fetchVars, saveVars, pipeVars>>

\* Lines 163-169: the request for the batch at offset batch_i is sent.
ResolveRequest ==
    /\ rpc = "request"
    /\ rpc' = "waiting"
    /\ mrequests' = Append(mrequests, batch_i)
    /\ mkeys' = Append(mkeys, BatchKeys(Batch(address_tokens, batch_i)))
    /\ UNCHANGED <<mode, files, calls, before, llama, rargs, address_tokens, batch_i,
                   metadata, mresponses, rret, rwrote, fetchVars, saveVars, pipeVars>>

\* Lines 170-182: a well-formed answer.
ResolveOk ==
    /\ rpc = "waiting"
    /\ mresponses' = Append(mresponses, "ok")
    /\ LET coins == Coins(llama, BatchKeys(Batch(address_tokens, batch_i)))
       IN ResolveAdvance(metadata \o MetaRows(coins, Len(coins)))
    /\ UNCHANGED <<mode, calls, before, llama, rargs, address_tokens, mrequests, mkeys,
                   fetchVars, saveVars, pipeVars>>

\* Lines 184-191: the request raised a RequestException.  Both branches of
\* the handler end in `continue`.
ResolveRequestException(kind, has_response, status) ==
    /\ rpc = "waiting"
    /\ mresponses' = Append(mresponses, kind)
    /\ IF RequestExceptionOutcome(has_response, status) = "raise"
       THEN /\ rpc' = "raised"
            /\ UNCHANGED <<files, batch_i, metadata, rret, rwrote>>
       ELSE ResolveAdvance(metadata)
    /\ UNCHANGED <<mode, calls, before, llama, rargs, address_tokens, mrequests, mkeys,
                   fetchVars, saveVars, pipeVars>>

Resolve429 == ResolveRequestException("429", TRUE, 429)

ResolveHttpError == ResolveRequestException("http_error", TRUE, 500)

ResolveConnError == ResolveRequestException("conn_error", FALSE, 0)

\* Line 171, resp.json() on a malformed body: a RequestException without
\* response (newer `requests`) or a ValueError caught at line 192 (older ones).
ResolveBadJson ==
    \/ ResolveRequestException("bad_json", FALSE, 0)
    \/ /\ rpc = "waiting"
       /\ mresponses' = Append(mresponses, "bad_json")
       /\ ResolveAdvance(metadata)
       /\ UNCHANGED <<mode, calls, before, llama, rargs, address_tokens, mrequests, mkeys,
                      fetchVars, saveVars, pipeVars>>

\* Lines 173-180 and 192-194: entry k of the answer is malformed (a key
\* without ":", a null value): the rows before it stay, the loop goes on.
BadEntries == {2}

ResolveBadEntry(k) ==
    /\ rpc = "waiting"
    /\ LET coins == Coins(llama, BatchKeys(Batch(address_tokens, batch_i)))
       IN /\ k <= Len(coins)
          /\ ResolveAdvance(metadata \o MetaRows(coins, k - 1))
    /\ mresponses' = Append(mresponses, "bad_entry")
    /\ UNCHANGED <<mode, calls, before, llama, rargs, address_tokens, mrequests, mkeys,
                   fetchVars, saveVars, pipeVars>>

NextResolve ==
    \/ \E uc, fr \in BOOLEAN : ResolveFromCache(uc, fr)
    \/ \E uc, fr \in BOOLEAN : ResolveFresh(uc, fr)
    \/ ResolveRequest
    \/ ResolveOk
    \/ Resolve429
    \/ ResolveHttpError
    \/ ResolveConnError
    \/ ResolveBadJson
    \/ \E k \in BadEntries : ResolveBadEntry(k)

(***************************************************************************)
(* Calls of smart_save_csv on the two output files.                         *)
(***************************************************************************)
NoCall == [nocall |-> TRUE]

TableA == DataFrame(PoolColumns, PageRows(1, 1, 2))
TableB == DataFrame(PoolColumns, PageRows(1, 1, 3))
\* TableA with its columns in another order
TableAPermuted == Reindex(TableA, <<"volume_usd", "base", "page">>)

\* TableA with None and with "" in one cell
TableANone == [TableA EXCEPT !.rows[1].base = None]
TableABlank == [TableA EXCEPT !.rows[1].base = EmptyString]

\* Among them TableA with its rows in the other order and TableA with
\* another number in one cell.
SaveTables ==
    {EmptyFrame, TableA, TableAPermuted, TableB,
     [TableA EXCEPT !.rows = <<TableA.rows[2], TableA.rows[1]>>],
     [TableA EXCEPT !.rows[1].volume_usd = Num(5)],
     TableANone, TableABlank}

SaveFiles == {FULL_OUTPUT, TOP100_OUTPUT}

SaveCall(df, filename, io) ==
    /\ mode = "save" /\ calls < MaxSaves
    /\ calls' = calls + 1
    /\ LET r == SmartSaveCsv(files, df, filename, io) IN
        /\ files' = r.files
        /\ lastCall' = [df |-> df, filename |-> filename, io |-> io,
                        ret |-> r.ret, branch |-> r.branch, wrote |-> r.wrote,
                        before |-> files]
    /\ prevCall' = lastCall
    /\ UNCHANGED <<mode, before, fetchVars, resolveVars, pipeVars>>

NextSave ==
    \E df \in SaveTables, filename \in SaveFiles, io \in IoOutcomes :
        SaveCall(df, filename, io)

(***************************************************************************)
(* integrate_metadata.  A token held in a table is the cell AddrCell(t)     *)
(* when it begins with 0x or 0X, and Tok(n) or EmptyString otherwise.       *)
(* Tokens numbered below 900 are 42 characters long, the others shorter.    *)
(***************************************************************************)
DecodeToken(cell) ==
    [pfx |-> IF (cell.v \div 2) % 2 = 1 THEN "0X" ELSE "0x",
     id |-> cell.v \div 4,
     up |-> cell.v % 2 = 1]

\* Line 267: isinstance(addr, str)
IsStr(cell) == cell.k \in {"addr", "tok", "str"}

\* Line 271: addr.strip().lower()
CleanAddr(cell) ==
    IF cell.k = "addr" THEN AddrCell(Lower(DecodeToken(cell))) ELSE cell

\* Line 274: addr_clean.startswith('0x') and len(addr_clean) == 42
IsContractAddress(cell) == cell.k = "addr" /\ DecodeToken(cell).id < 900

\* Python's truth value of a cell: None, "" and 0 are false; NaN is a float
\* other than 0 and so is true.
Truthy(cell) ==
    IF cell.k \in {"none", "str"} THEN FALSE
    ELSE IF cell.k = "num" THEN cell.v # 0
    ELSE TRUE

\* Lines 262, 275: the dictionary built from the rows (a later row replaces
\* an earlier one of the same key), then .get(key, {}).get("symbol").
MetadataSymbol(mdf, key) ==
    LET hits == {i \in 1..Len(mdf.rows) : CleanAddr(mdf.rows[i].address) = key}
    IN IF hits = {} THEN None
       ELSE mdf.rows[CHOOSE i \in hits : \A j \in hits : j <= i].symbol

\* Line 279: addr[:8] + "..."
Truncated(cell) == [k |-> "trunc", v |-> cell.v]

\* Lines 266-281.  Line 268 gives str(addr) of a value that is no string
\* ("None", "nan", "12").
GetSymbol(mdf, addr) ==
    IF ~IsStr(addr) THEN [k |-> "text", v |-> addr]
    ELSE IF IsContractAddress(addr) THEN
        IF Truthy(MetadataSymbol(mdf, CleanAddr(addr)))
        THEN MetadataSymbol(mdf, CleanAddr(addr))
        ELSE Truncated(addr)
    ELSE addr

IsMissing(cell) == cell.k \in {"none", "nan"}

\* Line 303: lp_df['volume_usd'].max(); missing values are skipped, and the
\* maximum of nothing is NaN.
VolumeMax(rows) ==
    LET vs == {rows[i].volume_usd.v : i \in {j \in 1..Len(rows) : ~IsMissing(rows[j].volume_usd)}}
    IN IF vs = {} THEN NaN ELSE Num(CHOOSE m \in vs : \A x \in vs : x <= m)

\* A number of two decimals, by its hundredths.
Score(h) == [k |-> "num2", v |-> h]

\* Line 303: (volume / max * 100).round(2).  A missing operand gives NaN, and
\* so does 0 / 0 (volumes are not negative, so the maximum 0 divides only 0).
\* Otherwise the quotient is rounded to two decimals (a tie to the even
\* neighbour) and held in hundredths; it is taken two digits at a time to
\* stay within 32-bit integers (max below 2^31 / 100).
LiquidityScore(vol, max) ==
    LET a1 == (vol.v % max.v) * 100
        a2 == (a1 % max.v) * 100
        q == (vol.v \div max.v) * 10000 + (a1 \div max.v) * 100 + (a2 \div max.v)
        r == a2 % max.v
    IN IF IsMissing(vol) \/ IsMissing(max) THEN NaN
       ELSE IF max.v = 0 THEN NaN
       ELSE IF 2 * r < max.v THEN Score(q)
       ELSE IF 2 * r > max.v THEN Score(q + 1)
       ELSE IF q % 2 = 0 THEN Score(q) ELSE Score(q + 1)

Grade(g) == [k |-> "grade", v |-> g]

\* (the grades with exclusive lower bounds)
TrustGradeExclusive(score) ==
    IF score.k # "num2" THEN Grade("D")
    ELSE IF score.v > 8000 THEN Grade("A")
    ELSE IF score.v > 5000 THEN Grade("B")
    ELSE IF score.v > 2000 THEN Grade("C")
    ELSE Grade("D")

\* Lines 306-310.  Every comparison with NaN is false.
TrustGrade(score) ==
    IF score.k # "num2" THEN Grade("D")
    ELSE IF score.v >= 8000 THEN Grade("A")
    ELSE IF score.v >= 5000 THEN Grade("B")
    ELSE IF score.v >= 2000 THEN Grade("C")
    ELSE Grade("D")

\* (an integrate_metadata that first drops the rows without volume)
IntegrateMetadataDroppingRows(lp_df, mdf) ==
    LET HasVolume(r) == ~IsMissing(r.volume_usd)
        kept == SelectSeq(lp_df.rows, HasVolume)
    IN [columns |-> lp_df.columns \o
                      <<"trading_pair", "volume_formatted", "liquidity_score",
                        "trust_grade">>,
        rows |-> [i \in 1..Len(kept) |->
                    [page |-> kept[i].page, base |-> kept[i].base,
                     target |-> kept[i].target, volume_usd |-> kept[i].volume_usd,
                     trading_pair |-> NaN, volume_formatted |-> NaN,
                     liquidity_score |-> NaN, trust_grade |-> Grade("D")]]]

\* Lines 258-323.  max is the maximum of the whole table (line 303).
\*   line 297: base + "/" + target, element by element; a missing value on
\*             either side gives a missing value;
\*   line 300: f"${x:,.0f}".
IntegrateMetadata(lp_df, mdf) ==
    LET max == VolumeMax(lp_df.rows)
        TradingPair(b, t) ==
            IF IsMissing(b) \/ IsMissing(t) THEN NaN
            ELSE [k |-> "pair", v |-> <<b, t>>]
        VolumeFormatted(x) == [k |-> "usd", v |-> x]
        RefinedRow(r) ==
            [page |-> r.page,
             base |-> GetSymbol(mdf, r.base),
             target |-> GetSymbol(mdf, r.target),
             volume_usd |-> r.volume_usd,
             trading_pair |->
                 TradingPair(GetSymbol(mdf, r.base), GetSymbol(mdf, r.target)),
             volume_formatted |-> VolumeFormatted(r.volume_usd),
             liquidity_score |-> LiquidityScore(r.volume_usd, max),
             trust_grade |-> TrustGrade(LiquidityScore(r.volume_usd, max))]
    IN [columns |-> lp_df.columns \o
                      <<"trading_pair", "volume_formatted", "liquidity_score",
                        "trust_grade">>,
        rows |-> [i \in 1..Len(lp_df.rows) |-> RefinedRow(lp_df.rows[i])]]

(***************************************************************************)
(* DataFrame.nlargest(n, 'volume_usd').reset_index(drop=True), line 438.    *)
(* With n below the number of rows pandas selects the rows with a stable    *)
(* merge sort.  With n >= the number of rows it calls                       *)
(* sort_values(ascending=False) with the default sort kind, which is not    *)
(* stable: the order of rows of equal volume depends on the build.  Two     *)
(* orders stand for it: the original one and the reversed one.  Rows        *)
(* without volume come last, in their original order.                       *)
(***************************************************************************)
TopN == 100

VolumeKey(row) == IF IsMissing(row.volume_usd) THEN -1 ELSE row.volume_usd.v

\* Rank(i) is the place of row i among the rows in descending order of
\* volume.
SortValuesDescending(rows, stable) ==
    LET Before(i, j) ==
            IF stable \/ IsMissing(rows[i].volume_usd) THEN j < i ELSE j > i
        Rank(i) ==
            Cardinality({j \in 1..Len(rows) : VolumeKey(rows[j]) > VolumeKey(rows[i])})
            + Cardinality({j \in 1..Len(rows) :
                              VolumeKey(rows[j]) = VolumeKey(rows[i]) /\ Before(i, j)})
            + 1
        rank == [i \in 1..Len(rows) |-> Rank(i)]
    IN [k \in 1..Len(rows) |-> rows[CHOOSE i \in 1..Len(rows) : rank[i] = k]]

\* The orders of equal volumes the call may produce.
TieOrders(df, n) == IF n >= Len(df.rows) THEN {TRUE, FALSE} ELSE {TRUE}

Nlargest(df, n, stable) ==
    [columns |-> df.columns,
     rows |-> SubSeq(SortValuesDescending(df.rows, stable), 1, Min(n, Len(df.rows)))]

(***************************************************************************)
(* find_optimal_cutoff                                                      *)
(***************************************************************************)
Thresholds == <<1000000, 100000, 50000, 10000>>

\* Line 373: df['volume_usd'] > threshold (false for a missing volume)
IsHigh(row, threshold) ==
    ~IsMissing(row.volume_usd) /\ row.volume_usd.v > threshold

\* The number of rows above the threshold on pages <= p.
HighCount(rows, threshold, p) ==
    Cardinality({i \in 1..Len(rows) : IsHigh(rows[i], threshold) /\ rows[i].page.v <= p})

\* Line 380: int(total_high_lps * target_percentage / 100)
TargetCount(total, target_percentage) == (total * target_percentage) \div 100

\* Lines 366-399: one report per threshold (lines 373-392).  pages are the
\* pages that hold a row above the threshold (line 378); the loop of lines
\* 385-389 stops at the first of them whose cumulative count reaches
\* target_count.
FindOptimalCutoff(df, target_percentage) ==
    LET CutoffReport(threshold) ==
            LET high == {i \in 1..Len(df.rows) : IsHigh(df.rows[i], threshold)}
                pages == {df.rows[i].page.v : i \in high}
                total == Cardinality(high)
                target_count == TargetCount(total, target_percentage)
                Reached(p) == HighCount(df.rows, threshold, p) >= target_count
            IN IF total = 0
               THEN [threshold |-> threshold, found |-> FALSE, total |-> 0,
                     target_count |-> 0, optimal_page |-> 0, cumulative |-> 0]
               ELSE LET optimal_page ==
                           CHOOSE p \in pages :
                               Reached(p) /\ \A q \in pages : q < p => ~Reached(q)
                    IN [threshold |-> threshold, found |-> TRUE, total |-> total,
                        target_count |-> target_count,
                        optimal_page |-> optimal_page,
                        cumulative |-> HighCount(df.rows, threshold, optimal_page)]
    IN [df |-> df, target_percentage |-> target_percentage,
        reports |-> [t \in 1..Len(Thresholds) |-> CutoffReport(Thresholds[t])]]

(***************************************************************************)
(* Tables given to integrate_metadata, nlargest and find_optimal_cutoff.    *)
(***************************************************************************)
PoolTickerColumns == <<"page", "base", "target", "volume_usd">>

PoolRow(pg, b, t, vol) == [page |-> Num(pg), base |-> b, target |-> t, volume_usd |-> vol]

\* The identifiers a ticker may carry: addresses in lower, upper and mixed
\* case, a symbol, a 0x-prefixed string shorter than 42 characters, no
\* identifier, the empty string.
Identifier(i) ==
    LET ShortHex == [pfx |-> "0x", id |-> 950, up |-> FALSE]
        Identifiers ==
            <<AddrCell(Address(1)), AddrCell(Address(6)), AddrCell(Address(5)),
              AddrCell(Address(7)), Tok(77), AddrCell(ShortHex), None, EmptyString>>
    IN Identifiers[((i - 1) % Len(Identifiers)) + 1]

\* Volumes that give the scores 100, 80, 79.99, 50, 49.99, 20, 19.99 and 0.
GradedPools ==
    LET GradedVolumes == <<10000, 8000, 7999, 5000, 4999, 2000, 1999, 0>>
    IN DataFrame(PoolTickerColumns,
                 [i \in 1..Len(GradedVolumes) |->
                     PoolRow(((i - 1) \div 3) + 1, Identifier(i), Identifier(i + 3),
                             Num(GradedVolumes[i]))])

\* More than TopN rows, many of equal volume.
ManyPools ==
    DataFrame(PoolTickerColumns,
              [i \in 1..(TopN + 2) |->
                  PoolRow(((i - 1) \div 34) + 1, Tok(i), Tok(77), Num((i % 4) * 1000))])

\* The pool tables: also one of volume 0 throughout, one with a ticker whose
\* usd volume was null, one without any volume, one with rows above the
\* thresholds spread over pages, and one of few rows, some of equal volume.
PoolFrames ==
    LET ZeroVolumePools ==
            DataFrame(PoolTickerColumns,
                      [i \in 1..3 |-> PoolRow(1, Identifier(i), Tok(77), Num(0))])
        MissingVolumePools ==
            DataFrame(PoolTickerColumns,
                      <<PoolRow(1, Identifier(1), Tok(77), NaN),
                        PoolRow(1, Identifier(2), Tok(77), Num(10)),
                        PoolRow(1, Identifier(3), Tok(77), Num(5))>>)
        NoVolumePools ==
            DataFrame(PoolTickerColumns,
                      [i \in 1..2 |-> PoolRow(1, Identifier(i), Tok(77), NaN)])
        HighPools ==
            DataFrame(PoolTickerColumns,
                      <<PoolRow(1, Tok(1), Tok(77), Num(2000000)),
                        PoolRow(1, Tok(2), Tok(77), Num(60000)),
                        PoolRow(2, Tok(3), Tok(77), Num(2000000)),
                        PoolRow(3, Tok(4), Tok(77), Num(2000000)),
                        PoolRow(4, Tok(5), Tok(77), Num(20000)),
                        PoolRow(4, Tok(6), Tok(77), Num(500))>>)
        TiedPools ==
            DataFrame(PoolTickerColumns,
                      <<PoolRow(1, Tok(1), Tok(77), Num(5)),
                        PoolRow(1, Tok(2), Tok(77), Num(7)),
                        PoolRow(1, Tok(3), Tok(77), Num(5))>>)
    IN {GradedPools, ZeroVolumePools, MissingVolumePools, NoVolumePools, ManyPools,
        HighPools, TiedPools}

\* The metadata of addresses 1..6 as a fresh resolve returns it (address 5
\* without symbol), and as it is loaded from the cache file.
FreshMeta == DataFrame(MetaColumns, MetaRows(BatchKeys(Addresses(6)), 6))

MetaFrames == {FreshMeta, ReadCsv(ToCsv(FreshMeta))}

(***************************************************************************)
(* Calls of integrate_metadata, nlargest and find_optimal_cutoff on given   *)
(* tables.                                                                  *)
(***************************************************************************)
\* integrate_metadata works on a copy of lp_df (line 284) and only reads
\* llama_df (line 262), so both tables are as before when it returns.  It
\* may be called again on the same tables; mcalls keeps what each call
\* returned.
IntegrateMetadataCall ==
    /\ mode = "refine" /\ mpc \in {"start", "refined"} /\ Len(mcalls) < MaxCalls
    /\ refined_df' = IntegrateMetadata(pools_df, llama_df)
    /\ mcalls' = Append(mcalls, [fn |-> "integrate_metadata", ret |-> refined_df'])
    /\ mpc' = "refined"
    /\ UNCHANGED <<mode, files, calls, before, fetchVars, resolveVars, saveVars,
                   pools_df, llama_df, top_pools, cutoff>>

NlargestCall(stable) ==
    /\ mode = "refine" /\ mpc = "refined"
    /\ stable \in TieOrders(refined_df, TopN)
    /\ top_pools' = Nlargest(refined_df, TopN, stable)
    /\ mpc' = "top"
    /\ UNCHANGED <<mode, files, calls, before, fetchVars, resolveVars, saveVars,
                   pools_df, llama_df, refined_df, cutoff, mcalls>>

FindOptimalCutoffCall(target_percentage) ==
    /\ mode = "refine" /\ Len(cutoff) < MaxReports
    /\ cutoff' = Append(cutoff, FindOptimalCutoff(pools_df, target_percentage))
    /\ UNCHANGED <<mode, files, calls, before, fetchVars, resolveVars, saveVars,
                   mpc, pools_df, llama_df, refined_df, top_pools, mcalls>>

NextRefine ==
    \/ IntegrateMetadataCall
    \/ \E stable \in BOOLEAN : NlargestCall(stable)
    \/ \E target_percentage \in {0, 50, 67, 90, 95, 100} :
          FindOptimalCutoffCall(target_percentage)

(***************************************************************************)
(* The main pipeline, lines 404-479.  The calls of fetch_uniswap_v3_pools   *)
(* and fetch_defillama_metadata are taken by their outcome: the cached      *)
(* table when the cache short-circuit applies, otherwise a table gathered   *)
(* from the upstream and saved through smart_save_csv when it has rows, or  *)
(* an exception that leaves the call.                                       *)
(***************************************************************************)
Called(fn, filename) == [fn |-> fn, filename |-> filename]

\* (a pipeline that integrates whatever resolve returned)
SkipIntegrationNever(df) == FALSE

\* Line 431: `if not llama_df.empty` fails.
SkipIntegration(df) == IsEmpty(df)

\* Line 410: fetch_uniswap_v3_pools(use_cache=True, force_refresh=False);
\* line 412 ends the run when the table is empty.
MainFetch(gathered, io) ==
    /\ mode = "main" /\ mpc = "start"
    /\ LET hit == CacheHit(TRUE, FALSE, files, COINGECKO_CACHE)
           df == IF hit THEN ReadCsv(files[COINGECKO_CACHE]) ELSE gathered
       IN /\ pools_df' = df
          /\ files' = IF hit THEN files
                      ELSE SmartSaveCsv(files, df, COINGECKO_CACHE, io).files
          /\ mpc' = IF IsEmpty(df) THEN "done" ELSE "fetched"
    /\ mcalls' = Append(mcalls, Called("fetch_uniswap_v3_pools", ""))
    /\ UNCHANGED <<mode, calls, before, fetchVars, resolveVars, saveVars,
                   llama_df, refined_df, top_pools, cutoff>>

\* Line 410 when the fetch raises (RequestExceptionOutcome "raise").
MainFetchRaises ==
    /\ mode = "main" /\ mpc = "start"
    /\ ~CacheHit(TRUE, FALSE, files, COINGECKO_CACHE)
    /\ mpc' = "aborted"
    /\ mcalls' = Append(mcalls, Called("fetch_uniswap_v3_pools", ""))
    /\ UNCHANGED <<mode, files, calls, before, fetchVars, resolveVars, saveVars,
                   pools_df, llama_df, refined_df, top_pools, cutoff>>

\* Lines 419-421: the two cutoff reports.
MainAnalyze ==
    /\ mode = "main" /\ mpc = "fetched"
    /\ cutoff' = <<FindOptimalCutoff(pools_df, 90), FindOptimalCutoff(pools_df, 95)>>
    /\ mcalls' = mcalls \o <<Called("find_optimal_cutoff", ""),
                            Called("find_optimal_cutoff", "")>>
    /\ mpc' = "analyzed"
    /\ UNCHANGED <<mode, files, calls, before, fetchVars, resolveVars, saveVars,
                   pools_df, llama_df, refined_df, top_pools>>

\* Lines 424-431: fetch_defillama_metadata(unique_tokens, use_cache=True,
\* force_refresh=False); the run ends when the table is empty.
MainResolve(gathered, io) ==
    /\ mode = "main" /\ mpc = "analyzed"
    /\ LET hit == CacheHit(TRUE, FALSE, files, DEFILLAMA_CACHE)
           df == IF hit THEN ReadCsv(files[DEFILLAMA_CACHE]) ELSE gathered
       IN /\ llama_df' = df
          /\ files' = IF hit THEN files
                      ELSE SmartSaveCsv(files, df, DEFILLAMA_CACHE, io).files
          /\ mpc' = IF SkipIntegration(df) THEN "done" ELSE "resolved"
    /\ mcalls' = Append(mcalls, Called("fetch_defillama_metadata", ""))
    /\ UNCHANGED <<mode, calls, before, fetchVars, resolveVars, saveVars,
                   pools_df, refined_df, top_pools, cutoff>>

\* Line 428 when the resolve raises.
MainResolveRaises ==
    /\ mode = "main" /\ mpc = "analyzed"
    /\ ~CacheHit(TRUE, FALSE, files, DEFILLAMA_CACHE)
    /\ mpc' = "aborted"
    /\ mcalls' = Append(mcalls, Called("fetch_defillama_metadata", ""))
    /\ UNCHANGED <<mode, files, calls, before, fetchVars, resolveVars, saveVars,
                   pools_df, llama_df, refined_df, top_pools, cutoff>>

\* Lines 433-438: integrate_metadata, then nlargest.
MainIntegrate(stable) ==
    /\ mode = "main" /\ mpc = "resolved"
    /\ refined_df' = IntegrateMetadata(pools_df, llama_df)
    /\ stable \in TieOrders(refined_df', TopN)
    /\ top_pools' = Nlargest(refined_df', TopN, stable)
    /\ mcalls' = Append(mcalls, Called("integrate_metadata", ""))
    /\ mpc' = "refined"
    /\ UNCHANGED <<mode, files, calls, before, fetchVars, resolveVars, saveVars,
                   pools_df, llama_df, cutoff>>

\* Line 468: smart_save_csv(refined_df, FULL_OUTPUT, ...)
MainSaveFull(io) ==
    /\ mode = "main" /\ mpc = "refined"
    /\ files' = SmartSaveCsv(files, refined_df, FULL_OUTPUT, io).files
    /\ mcalls' = Append(mcalls, Called("smart_save_csv", FULL_OUTPUT))
    /\ mpc' = "saved_full"
    /\ UNCHANGED <<mode, calls, before, fetchVars, resolveVars, saveVars,
                   pools_df, llama_df, refined_df, top_pools, cutoff>>

\* Line 469: smart_save_csv(top_pools, TOP100_OUTPUT, ...)
MainSaveTop(io) ==
    /\ mode = "main" /\ mpc = "saved_full"
    /\ files' = SmartSaveCsv(files, top_pools, TOP100_OUTPUT, io).files
    /\ mcalls' = Append(mcalls, Called("smart_save_csv", TOP100_OUTPUT))
    /\ mpc' = "done"
    /\ UNCHANGED <<mode, calls, before, fetchVars, resolveVars, saveVars,
                   pools_df, llama_df, refined_df, top_pools, cutoff>>

NextMain ==
    \/ \E gathered \in {EmptyFrame, GradedPools, ManyPools}, io \in IoOutcomes : MainFetch(gathered, io)
    \/ MainFetchRaises
    \/ MainAnalyze
    \/ \E gathered \in {EmptyFrame, FreshMeta}, io \in IoOutcomes : MainResolve(gathered, io)
    \/ MainResolveRaises
    \/ \E stable \in BOOLEAN : MainIntegrate(stable)
    \/ \E io \in IoOutcomes : MainSaveFull(io)
    \/ \E io \in IoOutcomes : MainSaveTop(io)

(***************************************************************************)
(* Initial states.                                                          *)
(***************************************************************************)
NoFiles == [f \in AllFiles |-> NoFile]

\* A data file and its sidecar as a completed save leaves them.
Saved(fs, filename, df) ==
    [fs EXCEPT ![filename] = ToCsv(df),
               ![HashFile(filename)] = Text(GetDataframeHash(df), FALSE)]

\* A cache left by an earlier run.
OldPools == DataFrame(PoolColumns, PageRows(1, 1, 2) \o PageRows(2, 2, 1))
OldMeta == DataFrame(MetaColumns, MetaRows(BatchKeys(Addresses(3)), 3))

FetchInitFiles == {NoFiles}

ResolveInitFiles == {NoFiles, Saved(NoFiles, DEFILLAMA_CACHE, OldMeta)}

Sidecars ==
    {NoFile, Unreadable, Text(Garbage, FALSE),
     Text(GetDataframeHash(TableA), FALSE), Text(GetDataframeHash(TableA), TRUE)}

SaveInitFiles ==
    {[NoFiles EXCEPT ![FULL_OUTPUT] = d, ![HashFile(FULL_OUTPUT)] = h] :
        d \in {NoFile, ToCsv(TableA), ToCsv(TableB)}, h \in Sidecars}

FetchIdleState ==
    /\ fpc = "idle"
    /\ fargs = [use_cache |-> TRUE, force_refresh |-> FALSE]
    /\ page = 1 /\ all_pools = <<>>
    /\ nrequests = 0 /\ requested = 0 /\ prevRequested = 0
    /\ lastResponse = "none" /\ seen = {} /\ served = <<>>
    /\ fret = EmptyFrame /\ fwrote = {}

ResolveIdleState ==
    /\ rpc = "idle"
    /\ address_tokens = <<>> /\ batch_i = 0 /\ metadata = <<>>
    /\ mrequests = <<>> /\ mresponses = <<>> /\ mkeys = <<>>
    /\ rret = EmptyFrame /\ rwrote = {}

SaveIdleState == prevCall = NoCall /\ lastCall = NoCall

PipeIdleState ==
    /\ mpc = "idle"
    /\ pools_df = EmptyFrame /\ llama_df = EmptyFrame
    /\ refined_df = EmptyFrame /\ top_pools = EmptyFrame
    /\ cutoff = <<>> /\ mcalls = <<>>

NoArgs == [token_addresses |-> <<>>, use_cache |-> TRUE, force_refresh |-> FALSE]

InitFetch ==
    /\ mode = "fetch" /\ calls = 0
    /\ api \in Apis
    /\ files \in FetchInitFiles
    /\ llama = "all" /\ rargs = NoArgs
    /\ before = files
    /\ FetchIdleState /\ ResolveIdleState /\ SaveIdleState /\ PipeIdleState

InitResolve ==
    /\ mode = "resolve" /\ calls = 0
    /\ llama \in Llamas
    /\ rargs \in [token_addresses : AddressLists, use_cache : {TRUE},
                  force_refresh : {FALSE}]
    /\ files \in ResolveInitFiles
    /\ api = [nfull |-> 0, last |-> 0]
    /\ before = files
    /\ FetchIdleState /\ ResolveIdleState /\ SaveIdleState /\ PipeIdleState

InitSave ==
    /\ mode = "save" /\ calls = 0
    /\ files \in SaveInitFiles
    /\ api = [nfull |-> 0, last |-> 0]
    /\ llama = "all" /\ rargs = NoArgs
    /\ before = files
    /\ FetchIdleState /\ ResolveIdleState /\ SaveIdleState /\ PipeIdleState

InitRefine ==
    /\ mode = "refine" /\ calls = 0
    /\ files = NoFiles
    /\ api = [nfull |-> 0, last |-> 0]
    /\ llama = "all" /\ rargs = NoArgs
    /\ before = files
    /\ FetchIdleState /\ ResolveIdleState /\ SaveIdleState
    /\ mpc = "start"
    /\ pools_df \in PoolFrames /\ llama_df \in MetaFrames
    /\ refined_df = EmptyFrame /\ top_pools = EmptyFrame
    /\ cutoff = <<>> /\ mcalls = <<>>

\* The files of a run of main: none, the two caches of an earlier run, or the
\* caches and the outputs of an earlier run.
CachedFiles ==
    Saved(Saved(NoFiles, COINGECKO_CACHE, GradedPools), DEFILLAMA_CACHE, FreshMeta)

InitMain ==
    /\ mode = "main" /\ calls = 0
    /\ files \in
          {NoFiles,
           Saved(NoFiles, COINGECKO_CACHE, GradedPools),
           CachedFiles,
           Saved(Saved(CachedFiles, FULL_OUTPUT,
                       IntegrateMetadata(GradedPools, FreshMeta)),
                 TOP100_OUTPUT, TableA)}
    /\ api = [nfull |-> 0, last |-> 0]
    /\ llama = "all" /\ rargs = NoArgs
    /\ before = files
    /\ FetchIdleState /\ ResolveIdleState /\ SaveIdleState
    /\ mpc = "start"
    /\ pools_df = EmptyFrame /\ llama_df = EmptyFrame
    /\ refined_df = EmptyFrame /\ top_pools = EmptyFrame
    /\ cutoff = <<>> /\ mcalls = <<>>

Init == InitFetch \/ InitResolve \/ InitSave \/ InitRefine \/ InitMain

Next == NextFetch \/ NextResolve \/ NextSave \/ NextRefine \/ NextMain

Spec == Init /\ [][Next]_vars

SpecFetch == InitFetch /\ [][NextFetch]_vars

\* The pipeline is one sequential process: it takes its next step whenever it
\* has one, and every request is answered (a response or an exception, within
\* the request's timeout).
SpecFetchFair == InitFetch /\ [][NextFetch]_vars /\ WF_vars(NextFetch)

SpecResolve == InitResolve /\ [][NextResolve]_vars

SpecSave == InitSave /\ [][NextSave]_vars

SpecRefine == InitRefine /\ [][NextRefine]_vars

SpecMain == InitMain /\ [][NextMain]_vars

(***************************************************************************)
(* Properties.                                                              *)
(***************************************************************************)
\* The current fetch call met the cache short-circuit's condition.
FetchHit ==
    fargs.use_cache /\ ~fargs.force_refresh /\ before[COINGECKO_CACHE] # NoFile

\* The current fetch call is a fresh fetch.
FetchIsFresh == mode = "fetch" /\ fpc # "idle" /\ ~FetchHit

\* The current resolve call met the cache short-circuit's condition.
ResolveHit ==
    rargs.use_cache /\ ~rargs.force_refresh /\ before[DEFILLAMA_CACHE] # NoFile

ResolveIsFresh == mode = "resolve" /\ rpc # "idle" /\ ~ResolveHit

\* Row j of `rows` is ticker i of upstream page p, tagged with page p, where
\* (p, i) is the j-th ticker of an upstream whose pages before the last are full.
RowIsTicker(rows, j) ==
    LET p == ((j - 1) \div PerPage) + 1
        i == ((j - 1) % PerPage) + 1
    IN /\ rows[j].page = Num(p)
       /\ rows[j].base = UpstreamTicker(p, i).base

\* The number of tickers on upstream pages 1..k, pages 1..k-1 being full.
TickersUpTo(k) == IF k = 0 THEN 0 ELSE (k - 1) * PerPage + ApiPageSize(api, k)

\* `rows` holds the tickers of pages 1..k, each once, in order, and nothing else.
RowsArePages(rows, k) ==
    /\ Len(rows) = TickersUpTo(k)
    /\ \A j \in 1..Len(rows) : RowIsTicker(rows, j)

\* served is <<1, 2, ..., k>>
ServedInOrder == \A j \in 1..Len(served) : served[j] = j

(* C1: a fresh fetch without failure requests pages 1, 2, 3, ... in order, one
   request per page; it goes on to page p+1 exactly when page p held PerPage
   tickers, stops after the first shorter page, and returns the tickers of
   every requested page, tagged with their page, in request order. *)
C1_PaginationInOrder ==
    (FetchIsFresh /\ seen \subseteq {"ok"}) =>
        /\ fpc # "raised"
        /\ ServedInOrder
        /\ nrequests = Len(served) + (IF fpc = "waiting" THEN 1 ELSE 0)
        /\ fpc = "waiting" =>
              requested = Len(served) + 1 /\ prevRequested = Len(served)
        /\ fpc = "request" => page = Len(served) + 1
        /\ \A p \in 1..(Len(served) - 1) : ApiPageSize(api, p) = PerPage
        /\ fpc \in {"request", "waiting"} =>
              \A p \in 1..Len(served) : ApiPageSize(api, p) = PerPage
        /\ fpc = "returned" =>
              /\ Len(served) >= 1
              /\ ApiPageSize(api, Len(served)) < PerPage
              /\ RowsArePages(fret.rows, Len(served))

C1_Witness ==
    /\ FetchIsFresh /\ fpc = "returned" /\ seen = {"ok"}
    /\ Len(served) = MaxPages + 1
    /\ Len(fret.rows) = MaxPages * PerPage + 40

(* C2: in fetch, the request that follows an HTTP 429 for page p is again for
   page p, and when the call returns, every page that was answered is in the
   result exactly once, whatever the number of 429 answers was. *)
C2_Retry429SamePage ==
    FetchIsFresh =>
        /\ (fpc = "request" /\ lastResponse = "429") => page = requested
        /\ (fpc = "waiting" /\ lastResponse = "429") => requested = prevRequested
        /\ (fpc = "returned" /\ "429" \in seen) =>
              /\ ServedInOrder
              /\ Len(fret.rows) >= TickersUpTo(Len(served))
              /\ \A j \in 1..Len(fret.rows) : RowIsTicker(fret.rows, j)
              /\ "bad_ticker" \notin seen =>
                    Len(fret.rows) = TickersUpTo(Len(served))

C2_Witness ==
    /\ FetchIsFresh /\ fpc = "returned" /\ seen = {"ok", "429"}
    /\ nrequests = MaxCount
    /\ Len(served) = MaxPages + 1
    /\ Len(fret.rows) = MaxPages * PerPage + 40

\* The number of rows the answers to all batches of the call hold together.
RowsOfEveryBatch ==
    LET offsets == {b \in 0..Len(address_tokens) :
                       b % BatchSize = 0 /\ b < Len(address_tokens)}
        Answer(b) == Coins(llama, BatchKeys(Batch(address_tokens, b)))
    IN Cardinality({p \in offsets \X (1..BatchSize) : p[2] <= Len(Answer(p[1]))})

(* C3 (as claimed): in resolve, the request that follows an HTTP 429 for a
   batch is for that same batch, and a call whose requests were only answered
   well or with 429 returns the rows of every batch. *)
C3_Resolve429SameBatch ==
    ResolveIsFresh =>
        /\ \A j \in 1..Len(mresponses) :
              (mresponses[j] = "429" /\ j < Len(mrequests)) =>
                  mrequests[j + 1] = mrequests[j]
        /\ (rpc = "returned"
            /\ \A j \in 1..Len(mresponses) : mresponses[j] \in {"ok", "429"}) =>
              Len(rret.rows) = RowsOfEveryBatch

(* C4 (as claimed): fetch never raises to its caller. *)
C4_FetchNeverRaises == fpc # "raised"

(* C5 (as claimed): in resolve, a batch that fails with anything other than
   HTTP 429 does not abort the call: resolve does not raise, and it returns
   only after every batch was requested. *)
C5_ResolveFailureDoesNotAbort ==
    (ResolveIsFresh
     /\ \E j \in 1..Len(mresponses) :
           mresponses[j] \in {"http_error", "conn_error", "bad_json", "bad_entry"}) =>
        /\ rpc # "raised"
        /\ rpc = "returned" =>
              \A i \in 0..(Len(address_tokens) - 1) :
                  i % BatchSize = 0 => InSeq(i, mrequests)

(* C6: in fetch, after an HTTP error other than 429 for page p no further
   request is sent, and fetch returns exactly the rows of pages 1..p-1. *)
C6_HttpErrorStopsKeepsRows ==
    (FetchIsFresh /\ lastResponse = "http_error") =>
        /\ fpc = "returned"
        /\ ServedInOrder
        /\ requested = Len(served) + 1
        /\ \A p \in 1..Len(served) : ApiPageSize(api, p) = PerPage
        /\ RowsArePages(fret.rows, Len(served))

C6_Witness ==
    /\ FetchIsFresh /\ fpc = "returned" /\ lastResponse = "http_error"
    /\ requested = MaxPages + 1
    /\ Len(fret.rows) = MaxPages * PerPage

(* C7 (as claimed): the pagination loop of every fetch call ends: from every
   point of the loop, fetch eventually leaves it. *)
C7_FetchLoopEnds == (fpc = "request") ~> (fpc \in {"returned", "raised"})

(* C8 (as claimed): under the cache short-circuit's condition fetch and
   resolve return the cached table, send no request and write no file;
   otherwise the result is built from the upstream's answers and the
   upstream is queried. *)
FetchShortCircuit ==
    (mode = "fetch" /\ fpc # "idle") =>
        IF FetchHit
        THEN /\ fpc = "returned"
             /\ fret = ReadCsv(before[COINGECKO_CACHE])
             /\ nrequests = 0
             /\ files = before
        ELSE fpc = "returned" =>
                /\ nrequests >= 1
                /\ fret = DataFrame(PoolColumns, all_pools)

ResolveShortCircuit ==
    (mode = "resolve" /\ rpc # "idle" /\ ResolveHit) =>
        /\ rpc = "returned"
        /\ rret = ReadCsv(before[DEFILLAMA_CACHE])
        /\ mrequests = <<>>
        /\ files = before

C8_CacheShortCircuit_Claimed ==
    /\ FetchShortCircuit
    /\ ResolveShortCircuit
    /\ (ResolveIsFresh /\ rpc = "returned") =>
          /\ Len(mrequests) >= 1
          /\ rret = DataFrame(MetaColumns, metadata)

(* C8 (amended): as claimed, except that a fresh resolve queries the upstream
   only when its addresses argument holds a 0x- or 0X-prefixed entry; without
   one it returns an empty table and sends no request. *)
C8_CacheShortCircuit ==
    /\ FetchShortCircuit
    /\ ResolveShortCircuit
    /\ (ResolveIsFresh /\ rpc = "returned") =>
          /\ rret = DataFrame(MetaColumns, metadata)
          /\ IF \E j \in 1..Len(rargs.token_addresses) :
                   StartsWith0x(rargs.token_addresses[j])
             THEN Len(mrequests) >= 1
             ELSE mrequests = <<>> /\ rret = EmptyFrame

C8_Witness ==
    /\ mode = "resolve" /\ rpc = "returned" /\ ResolveHit
    /\ calls = 2
    /\ Len(rargs.token_addresses) > BatchSize
    /\ Len(rret.rows) > 3

\* The sidecar of the call's file held, before the call, the digest of the
\* call's table (white space around it aside).
StoredDigestIs(call) ==
    LET hf == HashFile(call.filename) IN
    /\ call.before[call.filename] # NoFile
    /\ call.before[hf] # NoFile
    /\ call.before[hf].kind = "text"
    /\ call.before[hf].body = GetDataframeHash(call.df)

\* No file but those in `paths` differs between fs and the call's file system.
OnlyWrote(call, paths) ==
    \A f \in AllFiles \ paths : files[f] = call.before[f]

SaveSkippedOrUnchanged(call) ==
    IF IsEmpty(call.df)
    THEN call.branch = "skipped" /\ ~call.ret /\ files = call.before
    ELSE call.branch = "unchanged" /\ ~call.ret /\ files = call.before

SaveChanged(call) ==
    /\ call.branch = "saved" /\ call.ret
    /\ files[call.filename] = ToCsv(call.df)
    /\ files[HashFile(call.filename)] = Text(GetDataframeHash(call.df), FALSE)
    /\ OnlyWrote(call, {call.filename, HashFile(call.filename)})

(* C9 (as claimed): smart_save_csv skips a table without rows, leaves both
   files alone when both exist and the stored digest is the table's, and
   otherwise reports a write, after which the data file holds the table and
   the sidecar its digest. *)
C9_SaveOutcomes_Claimed ==
    lastCall # NoCall =>
        IF IsEmpty(lastCall.df) \/ StoredDigestIs(lastCall)
        THEN SaveSkippedOrUnchanged(lastCall)
        ELSE SaveChanged(lastCall)

(* C9 (amended): as claimed when the writes succeed; when the write of the
   data file or of the sidecar fails, the call reports no write and leaves
   the sidecar as it was (the data file holds the table if its write had
   succeeded).  A write is reported only when both files were written. *)
C9_SaveOutcomes ==
    lastCall # NoCall =>
        /\ IF IsEmpty(lastCall.df) \/ StoredDigestIs(lastCall)
           THEN SaveSkippedOrUnchanged(lastCall)
           ELSE IF lastCall.io = "ok"
           THEN SaveChanged(lastCall)
           ELSE /\ lastCall.branch = "error" /\ ~lastCall.ret
                /\ OnlyWrote(lastCall, {lastCall.filename})
                /\ files[lastCall.filename] =
                      IF lastCall.io = "hash_fail" THEN ToCsv(lastCall.df)
                      ELSE lastCall.before[lastCall.filename]
        /\ lastCall.ret =>
              lastCall.wrote = {lastCall.filename, HashFile(lastCall.filename)}

C9_Witness ==
    /\ lastCall # NoCall /\ prevCall # NoCall
    /\ prevCall.branch = "saved"
    /\ lastCall.branch = "error" /\ lastCall.io = "hash_fail"
    /\ lastCall.filename = prevCall.filename
    /\ files[lastCall.filename] = ToCsv(lastCall.df)
    /\ files[HashFile(lastCall.filename)] =
          Text(GetDataframeHash(prevCall.df), FALSE)

(* C10: two consecutive calls of smart_save_csv with the same table with rows
   and the same path, no write failing: the second reports "unchanged" and
   writes nothing, so the data file is written at most once in total. *)
C10_SaveIdempotent ==
    (/\ prevCall # NoCall /\ lastCall # NoCall
     /\ prevCall.df = lastCall.df /\ prevCall.filename = lastCall.filename
     /\ ~IsEmpty(lastCall.df)
     /\ prevCall.io = "ok" /\ lastCall.io = "ok") =>
        /\ lastCall.branch = "unchanged" /\ ~lastCall.ret
        /\ lastCall.wrote = {}
        /\ files = lastCall.before
        /\ Cardinality(prevCall.wrote \cap {prevCall.filename})
              + Cardinality(lastCall.wrote \cap {lastCall.filename}) <= 1

C10_Witness ==
    /\ prevCall # NoCall /\ lastCall # NoCall
    /\ prevCall.df = lastCall.df /\ prevCall.filename = lastCall.filename
    /\ prevCall.io = "ok" /\ lastCall.io = "ok"
    /\ prevCall.branch = "saved" /\ prevCall.before[prevCall.filename] # NoFile
    /\ lastCall.branch = "unchanged"

\* Before the call, the sidecar of the call's file existed and could not be
\* read, or held text that is no digest.
SidecarCorrupt(call) ==
    call.before[HashFile(call.filename)] \in
        {Unreadable, Text(Garbage, FALSE), Text(Garbage, TRUE)}

(* C11 (as claimed): smart_save_csv, given a table with rows and a sidecar
   that exists but is unreadable or corrupt, does not fail: it writes the data
   file and a fresh sidecar and reports a write. *)
C11_CorruptSidecar_Claimed ==
    (lastCall # NoCall /\ ~IsEmpty(lastCall.df) /\ SidecarCorrupt(lastCall)) =>
        SaveChanged(lastCall)

(* C11 (amended): given a table with rows and a sidecar that exists but is
   unreadable or corrupt, smart_save_csv goes on to the two writes as if no
   digest were stored; when both writes succeed it reports a write, the data
   file holds the table and the sidecar the table's digest; when a write
   fails it reports no write and the corrupt sidecar stays. *)
C11_CorruptSidecar ==
    (lastCall # NoCall /\ ~IsEmpty(lastCall.df) /\ SidecarCorrupt(lastCall)) =>
        /\ lastCall.branch \in {"saved", "error"}
        /\ IF lastCall.io = "ok"
           THEN SaveChanged(lastCall)
           ELSE /\ lastCall.branch = "error" /\ ~lastCall.ret
                /\ files[HashFile(lastCall.filename)] =
                      lastCall.before[HashFile(lastCall.filename)]
                /\ OnlyWrote(lastCall, {lastCall.filename})

C11_Witness ==
    /\ lastCall # NoCall
    /\ lastCall.before[lastCall.filename] = ToCsv(lastCall.df)
    /\ lastCall.before[HashFile(lastCall.filename)] = Unreadable
    /\ lastCall.branch = "saved" /\ lastCall.ret
    /\ files[HashFile(lastCall.filename)] =
          Text(GetDataframeHash(lastCall.df), FALSE)

\* The set of the column names of a table.
ColumnSet(df) == {df.columns[j] : j \in 1..Len(df.columns)}

\* X and Y hold the same cell values in the same rows; their columns may be
\* in different orders.
SameContent(X, Y) == ColumnSet(X) = ColumnSet(Y) /\ X.rows = Y.rows

\* X and Y have the same columns and rows, and every cell of X is written to
\* a CSV file with the same text as the cell of Y.
SameRendering(X, Y) ==
    /\ ColumnSet(X) = ColumnSet(Y)
    /\ Len(X.rows) = Len(Y.rows)
    /\ \A i \in 1..Len(X.rows) : \A c \in ColumnSet(X) :
          (X.rows[i][c].k \in {"none", "nan"} \/ X.rows[i][c] = EmptyString)
             = (Y.rows[i][c].k \in {"none", "nan"} \/ Y.rows[i][c] = EmptyString)
          /\ (X.rows[i][c].k \notin {"none", "nan"} /\ X.rows[i][c] # EmptyString
                => X.rows[i][c] = Y.rows[i][c])

\* The digest of a table without rows is the sentinel, and only of such.
EmptySentinel(X) == (GetDataframeHash(X) = NoHash) = (Len(X.rows) = 0)

(* C12 (as claimed): get_dataframe_hash depends on the table's content only:
   a table without rows gets the sentinel, and two tables with rows get the
   same digest exactly when they hold the same cell values in the same rows
   (column order aside): any differing cell value or row order changes it. *)
C12_Fingerprint_Claimed ==
    (prevCall # NoCall /\ lastCall # NoCall) =>
        /\ EmptySentinel(prevCall.df) /\ EmptySentinel(lastCall.df)
        /\ (~IsEmpty(prevCall.df) /\ ~IsEmpty(lastCall.df)) =>
              ((GetDataframeHash(prevCall.df) = GetDataframeHash(lastCall.df))
                  = SameContent(prevCall.df, lastCall.df))

(* C12 (amended): a table without rows gets the sentinel, and two tables with
   rows get the same digest exactly when they have the same columns (in any
   order) and the same rows in the same order as written to CSV: a cell that
   is missing (None, NaN) in one table and the empty string in the other is
   written alike and does not change the digest; any other differing cell,
   and a different row order, does. *)
C12_Fingerprint ==
    (prevCall # NoCall /\ lastCall # NoCall) =>
        /\ EmptySentinel(prevCall.df) /\ EmptySentinel(lastCall.df)
        /\ (~IsEmpty(prevCall.df) /\ ~IsEmpty(lastCall.df)) =>
              /\ (GetDataframeHash(prevCall.df) = GetDataframeHash(lastCall.df))
                    = SameRendering(prevCall.df, lastCall.df)
              /\ SameContent(prevCall.df, lastCall.df) =>
                    GetDataframeHash(prevCall.df) = GetDataframeHash(lastCall.df)

C12_Witness ==
    /\ prevCall # NoCall /\ lastCall # NoCall
    /\ prevCall.df = TableANone /\ lastCall.df = TableABlank
    /\ prevCall.filename = lastCall.filename
    /\ prevCall.branch = "saved" /\ lastCall.branch = "unchanged"
    /\ files[HashFile(lastCall.filename)] =
          Text(GetDataframeHash(TableANone), FALSE)

\* The entries of the call's address list that begin with 0x or 0X, in order.
GivenAddresses ==
    LET Is0x(t) == t.pfx \in {"0x", "0X"} IN SelectSeq(rargs.token_addresses, Is0x)

\* The key "ethereum:" + the lower-cased address t.
KeyOf(t) == [pfx |-> "0x", id |-> t.id, up |-> FALSE]

\* The current resolve call is fresh, has returned, and none of its requests failed.
ResolveDoneWithoutFailure ==
    /\ ResolveIsFresh /\ rpc = "returned"
    /\ \A j \in 1..Len(mresponses) : mresponses[j] = "ok"

(* C13: a fresh resolve without request failure looks up exactly the inputs
   that begin with 0x or 0X; with none it sends no request and returns an
   empty table; with n of them it sends ceil(n / 50) requests, request j
   carrying the keys of addresses 50(j-1)+1 .. min(50j, n) in order, so that
   every address is in exactly one batch, each key being "ethereum:" and the
   lower-cased address. *)
C13_FilterAndBatch ==
    ResolveDoneWithoutFailure =>
        LET n == Len(GivenAddresses) IN
        /\ address_tokens = GivenAddresses
        /\ n = 0 => mkeys = <<>> /\ mrequests = <<>> /\ rret = EmptyFrame
        /\ Len(mkeys) = (n + BatchSize - 1) \div BatchSize
        /\ Len(mrequests) = Len(mkeys)
        /\ \A j \in 1..Len(mkeys) :
              /\ mrequests[j] = BatchSize * (j - 1)
              /\ Len(mkeys[j]) = Min(BatchSize, n - BatchSize * (j - 1))
              /\ Len(mkeys[j]) >= 1
        /\ \A q \in 1..n :
              mkeys[((q - 1) \div BatchSize) + 1][((q - 1) % BatchSize) + 1]
                 = KeyOf(GivenAddresses[q])

C13_Witness ==
    /\ ResolveDoneWithoutFailure
    /\ Len(rargs.token_addresses) = MaxBatches * BatchSize + 2
    /\ Len(address_tokens) = MaxBatches * BatchSize + 1
    /\ Len(mkeys) = MaxBatches + 1
    /\ Len(mkeys[MaxBatches + 1]) = 1
    /\ \E q \in 1..Len(address_tokens) : address_tokens[q].pfx = "0X"

\* integrate_metadata has been applied to pools_df and llama_df.
Refined == mode = "refine" /\ mpc \in {"refined", "top"}

\* The maximum of the defined volumes of pools_df (NaN when there is none).
MaxVolume == VolumeMax(pools_df.rows)

(* C14 (as claimed): when the maximum volume of the pool table is positive,
   integrate_metadata gives the score 100 to every row whose volume is the
   maximum and 0 to every row of volume 0, every score is a number between 0
   and 100, and every score is the row's volume over that one maximum, in
   percent, rounded to two decimals. *)
C14_ScoreOverMaximum ==
    (Refined /\ MaxVolume.k = "num" /\ MaxVolume.v > 0) =>
        \A i \in 1..Len(pools_df.rows) :
            LET vol == pools_df.rows[i].volume_usd
                score == refined_df.rows[i].liquidity_score
            IN /\ vol = MaxVolume => score = Score(10000)
               /\ vol = Num(0) => score = Score(0)
               /\ score.k = "num2" /\ score.v >= 0 /\ score.v <= 10000
               /\ (score.k = "num2" /\ vol.k = "num" /\ MaxVolume.v <= 10000) =>
                     /\ 2 * (score.v * MaxVolume.v - vol.v * 10000) <= MaxVolume.v
                     /\ 2 * (vol.v * 10000 - score.v * MaxVolume.v) <= MaxVolume.v

(* C15 (as claimed): when the maximum volume of the pool table is 0 or
   undefined, integrate_metadata gives every row the score 0, a number, and
   the grade D. *)
C15_ZeroMaximumScoresZero ==
    (Refined /\ (MaxVolume = Num(0) \/ IsMissing(MaxVolume))) =>
        \A i \in 1..Len(refined_df.rows) :
            /\ refined_df.rows[i].liquidity_score = Score(0)
            /\ refined_df.rows[i].trust_grade = Grade("D")

(* C16: the grade of every row is a function of its score with inclusive
   lower bounds: A from 80, B from 50 to below 80, C from 20 to below 50,
   D below 20; every row has exactly one grade among A, B, C, D. *)
C16_TrustGradeBounds ==
    Refined =>
        \A i \in 1..Len(refined_df.rows) :
            LET score == refined_df.rows[i].liquidity_score
                grade == refined_df.rows[i].trust_grade
            IN /\ grade \in {Grade("A"), Grade("B"), Grade("C"), Grade("D")}
               /\ score.k = "num2" =>
                     /\ (grade = Grade("A")) = (score.v >= 8000)
                     /\ (grade = Grade("B")) = (score.v >= 5000 /\ score.v < 8000)
                     /\ (grade = Grade("C")) = (score.v >= 2000 /\ score.v < 5000)
                     /\ (grade = Grade("D")) = (score.v < 2000)

\* Some row of the refined table has this score and this grade.
Graded(h, g) ==
    \E i \in 1..Len(refined_df.rows) :
        /\ refined_df.rows[i].liquidity_score = Score(h)
        /\ refined_df.rows[i].trust_grade = Grade(g)

C16_Witness ==
    /\ Refined
    /\ Graded(8000, "A") /\ Graded(7999, "B") /\ Graded(5000, "B")
    /\ Graded(4999, "C") /\ Graded(2000, "C") /\ Graded(1999, "D")

\* The symbol the metadata table holds for the address of this cell: a row
\* whose address is the lower-cased cell and whose symbol is not null.
HasSymbol(cell, symbol) ==
    \E j \in 1..Len(llama_df.rows) :
        /\ llama_df.rows[j].address = AddrCell(KeyOf(DecodeToken(cell)))
        /\ llama_df.rows[j].symbol = symbol
        /\ ~IsMissing(symbol)

AddressShaped(cell) == cell.k = "addr" /\ DecodeToken(cell).id < 900

\* The claimed resolution of one identifier.
ResolvedAsClaimed(original, resolved) ==
    IF AddressShaped(original)
    THEN IF \E j \in 1..Len(llama_df.rows) :
                HasSymbol(original, llama_df.rows[j].symbol)
         THEN HasSymbol(original, resolved)
         ELSE resolved = Truncated(original)
    ELSE IsStr(original) => resolved = original

(* C17 (as claimed): integrate_metadata resolves base and target each on its
   own: a 42-character 0x value whose lower-cased form is a metadata address
   with a symbol that is not null becomes that symbol; one that is absent
   from the metadata, or whose symbol is null, becomes its first 8 characters
   and "..."; any other string stays as it is. *)
C17_SymbolResolution ==
    Refined =>
        \A i \in 1..Len(pools_df.rows) :
            /\ ResolvedAsClaimed(pools_df.rows[i].base, refined_df.rows[i].base)
            /\ ResolvedAsClaimed(pools_df.rows[i].target, refined_df.rows[i].target)

\* The first place of this row in the refined table.
PlaceOf(row) ==
    CHOOSE i \in 1..Len(refined_df.rows) :
        /\ refined_df.rows[i] = row
        /\ \A j \in 1..(i - 1) : refined_df.rows[j] # row

(* C18 (as claimed): the top table has min(100, n) rows, all of the refined
   table, in descending order of volume, rows of equal volume in their
   original order, and no row left out has a larger volume than a row kept. *)
C18_TopHundredStable ==
    (mode = "refine" /\ mpc = "top") =>
        /\ Len(top_pools.rows) = Min(100, Len(refined_df.rows))
        /\ \A k \in 1..Len(top_pools.rows) :
              \E i \in 1..Len(refined_df.rows) : refined_df.rows[i] = top_pools.rows[k]
        /\ \A k \in 1..(Len(top_pools.rows) - 1) :
              \/ VolumeKey(top_pools.rows[k]) > VolumeKey(top_pools.rows[k + 1])
              \/ /\ VolumeKey(top_pools.rows[k]) = VolumeKey(top_pools.rows[k + 1])
                 /\ PlaceOf(top_pools.rows[k]) < PlaceOf(top_pools.rows[k + 1])
        /\ \A i \in 1..Len(refined_df.rows) :
              (\A k \in 1..Len(top_pools.rows) : top_pools.rows[k] # refined_df.rows[i]) =>
                  \A k \in 1..Len(top_pools.rows) :
                      VolumeKey(refined_df.rows[i]) <= VolumeKey(top_pools.rows[k])

(* C19 (as claimed): for every threshold with a row above it,
   find_optimal_cutoff reports the smallest page p such that the rows above
   the threshold on pages <= p are at least target_percentage percent of all
   rows above it; so the share it reports as captured is never below
   target_percentage. *)
C19_SmallestPageReachingTarget ==
    \A c \in 1..Len(cutoff) : \A t \in 1..Len(Thresholds) :
        LET r == cutoff[c].reports[t]
            rows == cutoff[c].df.rows
            Enough(p) ==
                HighCount(rows, Thresholds[t], p) * 100
                    >= cutoff[c].target_percentage * r.total
        IN r.found =>
              /\ r.total >= 1
              /\ Enough(r.optimal_page)
              /\ \A p \in 1..(r.optimal_page - 1) : ~Enough(p)
              /\ r.cumulative * 100 >= cutoff[c].target_percentage * r.total

\* The calls of a complete run of main, in order.
FullRun ==
    <<Called("fetch_uniswap_v3_pools", ""),
      Called("find_optimal_cutoff", ""), Called("find_optimal_cutoff", ""),
      Called("fetch_defillama_metadata", ""),
      Called("integrate_metadata", ""),
      Called("smart_save_csv", FULL_OUTPUT), Called("smart_save_csv", TOP100_OUTPUT)>>

MainCalled(fn) == \E j \in 1..Len(mcalls) : mcalls[j].fn = fn

\* The fetch / the resolve of this run of main has returned a table.
MainFetchReturned ==
    mode = "main" /\ MainCalled("fetch_uniswap_v3_pools")
    /\ ~(mpc = "aborted" /\ Len(mcalls) = 1)

MainResolveReturned ==
    mode = "main" /\ MainCalled("fetch_defillama_metadata") /\ mpc # "aborted"

OutputFiles ==
    {FULL_OUTPUT, TOP100_OUTPUT, HashFile(FULL_OUTPUT), HashFile(TOP100_OUTPUT)}

(* C20: in main, after fetch returned a table with rows: when resolve returns
   an empty table, integrate_metadata is not called, no output file and no
   sidecar of one is written, and the run is complete; when resolve returns
   a table with rows, integrate_metadata is called once and smart_save_csv
   is called for the full table and then for the top table, after which the
   run is complete.  When fetch returns an empty table, resolve is not
   called. *)
C20_MainPipeline ==
    mode = "main" =>
        /\ mcalls = SubSeq(FullRun, 1, Len(mcalls))
        /\ (MainFetchReturned /\ IsEmpty(pools_df)) =>
              /\ mpc = "done"
              /\ ~MainCalled("fetch_defillama_metadata")
        /\ (MainFetchReturned /\ ~IsEmpty(pools_df)
            /\ MainResolveReturned /\ IsEmpty(llama_df)) =>
              /\ mpc = "done"
              /\ ~MainCalled("integrate_metadata") /\ ~MainCalled("smart_save_csv")
              /\ refined_df = EmptyFrame
              /\ \A f \in OutputFiles : files[f] = before[f]
        /\ (MainResolveReturned /\ ~IsEmpty(llama_df)) =>
              /\ ~IsEmpty(pools_df)
              /\ mpc \in {"resolved", "refined", "saved_full", "done"}
              /\ mpc = "resolved" => ~MainCalled("integrate_metadata")
              /\ mpc = "refined" => Len(mcalls) = 5
              /\ mpc = "saved_full" => Len(mcalls) = 6
              /\ mpc = "done" => mcalls = FullRun

C20_Witness ==
    /\ mode = "main" /\ mpc = "done" /\ mcalls = FullRun
    /\ before = NoFiles
    /\ Len(refined_df.rows) = TopN + 2 /\ Len(top_pools.rows) = TopN
    /\ files[FULL_OUTPUT] = ToCsv(refined_df)
    /\ files[TOP100_OUTPUT] = ToCsv(top_pools)
    /\ files[HashFile(TOP100_OUTPUT)] = Text(GetDataframeHash(top_pools), FALSE)

(* C21 (as claimed): every row integrate_metadata returns carries the page,
   base, target and volume_usd of its source row with their original values
   (the raw base and target identifiers included), next to the derived
   trading_pair, volume_formatted, liquidity_score and trust_grade. *)
C21_KeepsTickerFields ==
    Refined =>
        /\ \A c \in {"trading_pair", "volume_formatted", "liquidity_score",
                      "trust_grade"} : InSeq(c, refined_df.columns)
        /\ \A i \in 1..Len(pools_df.rows) :
              /\ refined_df.rows[i].page = pools_df.rows[i].page
              /\ refined_df.rows[i].volume_usd = pools_df.rows[i].volume_usd
              /\ refined_df.rows[i].base = pools_df.rows[i].base
              /\ refined_df.rows[i].target = pools_df.rows[i].target

\* The current resolve call is fresh and has returned.
ResolveReturnedFresh == ResolveIsFresh /\ rpc = "returned"

\* The address cell holds a lower-cased address.
IsLowerCased(cell) == cell.k = "addr" /\ cell = CleanAddr(cell)

(* C22 (as claimed): in every table a fresh resolve returns, address is a
   unique key: every row's address is lower-cased and no two rows have the
   same address, also when the address list holds one address in two letter
   cases, in one batch or in several. *)
C22_AddressUniqueKey ==
    ResolveReturnedFresh =>
        /\ \A i \in 1..Len(rret.rows) : IsLowerCased(rret.rows[i].address)
        /\ \A i, j \in 1..Len(rret.rows) :
              rret.rows[i].address = rret.rows[j].address => i = j

\* The upstream ticker that row j of a fresh fetch was built from.
TickerOfRow(j) == UpstreamTicker(((j - 1) \div PerPage) + 1, ((j - 1) % PerPage) + 1)

\* The ticker carries no USD volume: no converted_volume, a converted_volume
\* without usd, or a null usd.
LacksUsdVolume(t) == ~t.has_cv \/ ~t.has_usd \/ t.usd = None

(* C23 (as claimed): every row a fresh fetch returns has a number as
   volume_usd, which is 0 whenever the upstream ticker lacks a USD volume
   (converted_volume missing, converted_volume without usd, or usd null);
   and the page values do not decrease along the returned rows. *)
C23_VolumeDefinedPagesOrdered ==
    (FetchIsFresh /\ fpc = "returned") =>
        /\ \A j \in 1..Len(fret.rows) :
              /\ RowIsTicker(fret.rows, j)
              /\ fret.rows[j].volume_usd.k = "num"
              /\ LacksUsdVolume(TickerOfRow(j)) => fret.rows[j].volume_usd = Num(0)
        /\ \A j \in 1..(Len(fret.rows) - 1) :
              fret.rows[j].page.v <= fret.rows[j + 1].page.v

(* C24: a call of integrate_metadata leaves the pool table and the metadata
   table it was given unchanged, and returns one row per row of the pool
   table, in the order of the pool table (row i has the page and the volume
   of pool row i, and its base and target are those of pool row i resolved);
   a call on the same tables returns what every earlier call returned. *)
C24_RefineFrameAndDeterminism ==
    [][(mode = "refine" /\ Len(mcalls') = Len(mcalls) + 1) =>
          /\ pools_df' = pools_df /\ llama_df' = llama_df
          /\ mcalls'[Len(mcalls')].ret = refined_df'
          /\ Len(refined_df'.rows) = Len(pools_df.rows)
          /\ \A i \in 1..Len(pools_df.rows) :
                /\ refined_df'.rows[i].page = pools_df.rows[i].page
                /\ refined_df'.rows[i].volume_usd = pools_df.rows[i].volume_usd
                /\ refined_df'.rows[i].base = GetSymbol(llama_df, pools_df.rows[i].base)
                /\ refined_df'.rows[i].target =
                      GetSymbol(llama_df, pools_df.rows[i].target)
          /\ \A c \in 1..Len(mcalls) : mcalls[c].ret = refined_df'
      ]_vars

C24_Witness ==
    /\ mode = "refine" /\ Len(mcalls) = 2
    /\ mcalls[1].ret = mcalls[2].ret /\ mcalls[2].ret = refined_df
    /\ Len(refined_df.rows) = 3
    /\ \E i \in 1..Len(pools_df.rows) : IsMissing(pools_df.rows[i].volume_usd)
    /\ \E i \in 1..Len(pools_df.rows) : ~IsMissing(pools_df.rows[i].volume_usd)

\* The data file `filename` and its sidecar hold one table and its digest.
SidecarMatchesData(fs, filename) ==
    \E df \in SaveTables :
        /\ ~IsEmpty(df)
        /\ fs[filename] = ToCsv(df)
        /\ fs[HashFile(filename)] = Text(GetDataframeHash(df), FALSE)

(* C25 (as claimed): starting with neither the data file nor its sidecar,
   after any sequence of smart_save_csv calls, those whose data-file write or
   sidecar write fails included, whenever both files exist the sidecar holds
   the digest of the table stored in the data file. *)
C25_SidecarConsistent ==
    \A filename \in SaveFiles :
        (/\ mode = "save"
         /\ ~Exists(before, filename) /\ ~Exists(before, HashFile(filename))
         /\ Exists(files, filename) /\ Exists(files, HashFile(filename))) =>
            SidecarMatchesData(files, filename)

\* The answers that are request failures ending the loop (HTTP 429 is retried).
RequestFailures == {"http_error", "conn_error", "bad_json"}

\* This step ends a fresh fetch.
FetchEnds == mode = "fetch" /\ fpc = "waiting" /\ fpc' \in {"returned", "raised"}

\* A fresh fetch has returned a table with rows after a request failure, and
\* the raw cache holds that table.
PartialFetchCached ==
    /\ FetchIsFresh /\ fpc = "returned"
    /\ lastResponse \in RequestFailures
    /\ Len(fret.rows) >= 1
    /\ files[COINGECKO_CACHE] = ToCsv(fret)

(* C26 (as claimed): a fetch that stops early on a request failure after
   collecting at least one row returns and persists that partial table to the
   raw cache (unless the write of the cache file itself fails or the cache is
   already up to date, when no file is written); the next fetch with
   use_cache true and force_refresh false then returns that partial table
   without any request and without writing; and a fetch that collected no
   row writes no file. *)
C26_PartialFetchPersisted ==
    [][/\ (FetchEnds /\ lastResponse' \in RequestFailures /\ all_pools' # <<>>) =>
             /\ fpc' = "returned"
             /\ fret' = DataFrame(PoolColumns, all_pools')
             /\ \/ files'[COINGECKO_CACHE] = ToCsv(fret')
                \/ fwrote' = {} /\ files' = files
       /\ (FetchEnds /\ all_pools' = <<>>) => (fwrote' = {} /\ files' = files)
       /\ (/\ PartialFetchCached
           /\ calls' = calls + 1
           /\ fargs'.use_cache /\ ~fargs'.force_refresh) =>
             /\ fpc' = "returned"
             /\ nrequests' = 0
             /\ SameRendering(fret', fret)
             /\ files' = files
      ]_vars

=============================================================================
